---- MODULE Spec2Model ----
(***************************************************************************)
(* Session lifecycle and signing subsystem of service-rs: the Session      *)
(* entity with its Unsigned/Signed sign-state, the SessionBuilder, the     *)
(* SessionManager (issuance and verification against the issuance ledger)  *)
(* and the signing Key.                                                    *)
(*                                                                         *)
(* Strings are sequences of one-character strings.  Time is counted in     *)
(* ticks, TicksPerSec ticks to the second, so that DateTime<Utc> values    *)
(* carry a sub-second part that the "%Y-%m-%d %H:%M:%S %Z" rendering       *)
(* drops.                                                                  *)
(***************************************************************************)
EXTENDS Integers, Sequences, FiniteSets, TLC

\* ------------------------------------------------------------------ bounds

\* Last clock value (in ticks) the model explores.
MaxTime == 2

\* Number of sessions the managers issue in one behaviour.
MaxIssued == 1

\* Sub-second resolution of the clock: ticks per rendered second.
TicksPerSec == 2

\* Number of threads that call one manager concurrently.
NumThreads == 2

\* ------------------------------------------------------------- value sets

Managers == {"A", "B"}

\* Key material (der_bytes): two generated Ed25519 pkcs8 documents.  Any
\* other byte blob is no pkcs8 document (Key::open and From<Vec<u8>> accept
\* any bytes).
GeneratedKeys == {"k1", "k2"}

\* Identifiers Id::new() can return (uuid strings hold no ':').
UuidIds == {<<"u">>, <<"v">>, <<"w">>}

EmptyString == <<>>

\* Subjects handed to new_session.
Subjects == {EmptyString, <<"a">>}

\* Values a client can put into a restored session.
RestoreIds == {EmptyString, <<"w">>}
RestoreSubjects == {EmptyString, <<"b">>}
RestoreIssuers == {EmptyString, <<"y">>}

\* Issuers and durations (in ticks) the builders are configured with.
Issuers == {<<"x">>, EmptyString}
Durations == {1, 2}

\* DateTime<Utc> values: the clock runs from 0 to MaxTime.
Timestamps == 0..(MaxTime + 1)

\* Byte blobs a key file can hold: a generated pkcs8 document, or bytes that
\* are no key at all.
Blobs == GeneratedKeys \cup {"junk"}

\* File names handed to Key::save and Key::open; the directory of "d/p"
\* does not exist.
Paths == {"p", "q"}
FileNames == Paths \cup {"d/p"}

\* No file at a path; no Key held.
NoFile == "absent"
NoKey == "none"

\* Messages handed to Key::sign and Key::has_signed.
Messages == {<<"m">>, <<"n">>}

\* Users of the repository: ids, emails and password hashes.
UserIds == {"1", "2"}
Emails == {"e1", "e2"}
PasswordHashes == {"h1", "h2"}
Users == [id : UserIds, email : Emails, password_hash : PasswordHashes]

\* An empty slot of HashMap<Id, User> and of HashMap<String, Id>.
NoUser == [id |-> "-", email |-> "-", password_hash |-> "-"]
NoId == "-"

\* ---------------------------------------------------------------- session

Unsigned == [tag |-> "Unsigned"]
Signed(signature) == [tag |-> "Signed", signature |-> signature]

\* A signature no key produced (arbitrary bytes), and the empty signature.
JunkSignature == [key |-> "junk", msg |-> <<"j">>]
EmptySignature == [key |-> "junk", msg |-> <<>>]

Digit(n) == CASE n = 0 -> "0" [] n = 1 -> "1" [] n = 2 -> "2" [] n = 3 -> "3"
              [] n = 4 -> "4" [] n = 5 -> "5" [] n = 6 -> "6" [] n = 7 -> "7"
              [] n = 8 -> "8" [] n = 9 -> "9"

\* DateTime::format("%Y-%m-%d %H:%M:%S %Z"): a fixed-width rendering of the
\* whole second of a timestamp; the sub-second part is dropped.
format_time(t) ==
    LET sec == t \div TicksPerSec
    IN  <<Digit((sec \div 10) % 10), Digit(sec % 10)>>

\* Mutant of to_string: the sign-state is rendered too.
to_string_WithSignState(s) ==
    s.id \o <<":">> \o s.user_id \o <<":">> \o s.issuer \o <<":">>
        \o format_time(s.issued_at) \o <<":">> \o format_time(s.expires_at)
        \o <<":">> \o <<s.sign_state.tag>>

\* Display for Session: "{id}:{user_id}:{issuer}:{issued_at}:{expires_at}".
to_string(s) ==
    s.id \o <<":">> \o s.user_id \o <<":">> \o s.issuer \o <<":">>
        \o format_time(s.issued_at) \o <<":">> \o format_time(s.expires_at)

\* format!("{}:{}", session, nonce): the signing payload and hash input.
payload(s, nonce) == to_string(s) \o <<":">> \o nonce

\* sha256::digest, taken as collision free.
sha256_digest(bytes) == [sha256 |-> bytes]

\* Session::hash
hash(s, nonce) == sha256_digest(payload(s, nonce))

\* Mutant of is_expired: the session already counts as expired at the
\* instant expires_at.
is_expired_Inclusive(s, now) == now >= s.expires_at

\* Mutant of is_expired: no session ever counts as expired.
is_expired_Never(s, now) == FALSE

\* Session::is_expired
is_expired(s, now) == now > s.expires_at

\* Session<Unsigned>::is_signed / Session<Signed>::is_signed
is_signed(s) == s.sign_state.tag = "Signed"

\* Mutant of is_valid: the sign-state is not looked at.
is_valid_IgnoringSignState(s, now) ==
    /\ ~(now > s.expires_at)
    /\ s.user_id # EmptyString
    /\ s.issuer # EmptyString
    /\ now >= s.issued_at

\* Mutant of is_valid: issued_at has to lie strictly in the past.
is_valid_StrictIssuedAt(s, now) ==
    IF s.sign_state.tag = "Unsigned"
    THEN FALSE
    ELSE /\ ~(now > s.expires_at)
         /\ s.user_id # EmptyString
         /\ s.issuer # EmptyString
         /\ now > s.issued_at

\* Mutant of is_valid: issued_at is not compared with the clock.
is_valid_IgnoringIssuedAt(s, now) ==
    IF s.sign_state.tag = "Unsigned"
    THEN FALSE
    ELSE /\ ~is_expired(s, now)
         /\ s.user_id # EmptyString
         /\ s.issuer # EmptyString

\* Session<Unsigned>::is_valid / Session<Signed>::is_valid
is_valid(s, now) ==
    IF s.sign_state.tag = "Unsigned"
    THEN FALSE
    ELSE /\ ~is_expired(s, now)
         /\ s.user_id # EmptyString
         /\ s.issuer # EmptyString
         /\ now >= s.issued_at

\* Session<Signed>::signature
signature(s) == s.sign_state.signature

\* Mutant of finish: the duration is not added to issued_at.
finish_WithoutDuration(b) ==
    IF b.user_id = EmptyString
    THEN [panicked |-> TRUE, session |-> [id |-> EmptyString, user_id |-> EmptyString,
              issuer |-> EmptyString, issued_at |-> 0, expires_at |-> 0,
              sign_state |-> Unsigned]]
    ELSE [panicked |-> FALSE,
          session |-> [id |-> b.id, user_id |-> b.user_id, issuer |-> b.issuer,
                       issued_at |-> b.issued_at,
                       expires_at |-> b.issued_at,
                       sign_state |-> Unsigned]]

\* Mutant of finish: the subject is not asserted to be non-empty.
finish_NoAssert(b) ==
    [panicked |-> FALSE,
     session |-> [id |-> b.id, user_id |-> b.user_id, issuer |-> b.issuer,
                  issued_at |-> b.issued_at,
                  expires_at |-> b.issued_at + b.duration,
                  sign_state |-> Unsigned]]

\* SessionBuilder::finish; panicked when the assertion on user_id fails.
finish(b) ==
    IF b.user_id = EmptyString
    THEN [panicked |-> TRUE, session |-> [id |-> EmptyString, user_id |-> EmptyString,
              issuer |-> EmptyString, issued_at |-> 0, expires_at |-> 0,
              sign_state |-> Unsigned]]
    ELSE [panicked |-> FALSE,
          session |-> [id |-> b.id, user_id |-> b.user_id, issuer |-> b.issuer,
                       issued_at |-> b.issued_at,
                       expires_at |-> b.issued_at + b.duration,
                       sign_state |-> Unsigned]]

\* Mutant of add_signature: the Signed session is made with the default
\* issuer instead of the unsigned session's.
add_signature_DropsIssuer(s, sig) ==
    [id |-> s.id, user_id |-> s.user_id, issuer |-> EmptyString,
     issued_at |-> s.issued_at, expires_at |-> s.expires_at,
     sign_state |-> Signed(sig)]

\* Session<Unsigned>::add_signature
add_signature(s, sig) ==
    [id |-> s.id, user_id |-> s.user_id, issuer |-> s.issuer,
     issued_at |-> s.issued_at, expires_at |-> s.expires_at,
     sign_state |-> Signed(sig)]

\* Mutant of restore: the two timestamps are stored in each other's field.
restore_SwappedTimes(id, user_id, issuer, issued_at, expires_at, sig) ==
    [id |-> id, user_id |-> user_id, issuer |-> issuer,
     issued_at |-> expires_at, expires_at |-> issued_at,
     sign_state |-> [tag |-> "Signed", signature |-> sig]]

\* Session::restore
restore(id, user_id, issuer, issued_at, expires_at, sig) ==
    [id |-> id, user_id |-> user_id, issuer |-> issuer,
     issued_at |-> issued_at, expires_at |-> expires_at,
     sign_state |-> Signed(sig)]

\* -------------------------------------------------------------------- key

\* signature::Ed25519KeyPair::from_pkcs8 accepts the der bytes.
from_pkcs8_ok(der_bytes) == der_bytes \in GeneratedKeys

\* Key::sign (Ed25519 is deterministic: one signature per key and message).
sign(der_bytes, message) ==
    IF from_pkcs8_ok(der_bytes)
    THEN [ok |-> TRUE, signature |-> [key |-> der_bytes, msg |-> message]]
    ELSE [ok |-> FALSE, signature |-> EmptySignature]

\* Mutant of has_signed: with key material that is no key, every signature
\* is accepted.
has_signed_TrueWithoutKey(der_bytes, message, sig) ==
    IF ~from_pkcs8_ok(der_bytes)
    THEN TRUE
    ELSE sig = [key |-> der_bytes, msg |-> message]

\* Key::has_signed
has_signed(der_bytes, message, sig) ==
    IF ~from_pkcs8_ok(der_bytes)
    THEN FALSE
    ELSE sig = [key |-> der_bytes, msg |-> message]

\* ---------------------------------------------------------------- manager

VARIABLES
    now,      \* Utc::now(), in ticks
    mgr,      \* the SessionManager instances: configuration and ledger
    issued,   \* history: the sessions new_session has returned, per manager
    last,     \* the most recent call: its operation, arguments and result
    threads,  \* per thread: the call it is in, its position and its locals
    lock,     \* the Mutex around issued_sessions: 0, or the thread holding it
    files,    \* the file system: per path, the bytes stored there
    held,     \* the Key the program holds, if any
    users,        \* Memory::users: per id, the stored user
    email_index   \* Memory::email_index: per email, the id it points to

\* The state outside the session subsystem.
stores == <<files, held, users, email_index>>

vars == <<now, mgr, issued, last, threads, lock, files, held, users,
          email_index>>

\* SessionData
SessionData(expires_at) == [expires_at |-> expires_at]

\* Mutant of insert: the new entry replaces the map's content.
insert_Clearing(map, k, v) == [h \in {k} |-> v]

\* HashMap::insert
insert(map, k, v) == [h \in (DOMAIN map) \cup {k} |-> IF h = k THEN v ELSE map[h]]

\* HashMap::contains_key
contains_key(map, k) == k \in DOMAIN map

\* SessionManagerBuilder::finish
SessionManager(key, nonce, issuer, session_duration) ==
    [key |-> key, nonce |-> nonce, issuer |-> issuer,
     session_duration |-> session_duration, issued_sessions |-> <<>>]

\* SessionManager::get_signing_key: the key the manager signs and verifies
\* with, the same on every call.
get_signing_key(M) == M.key

\* Mutant of Id_new: the same identifier on every call.
Id_new_Constant == <<"u">>

\* Id::new(): a uuid no session has yet.
UsedIds ==
    {i.s.id : i \in issued}
        \cup {threads[t].s.id : t \in {u \in DOMAIN threads : threads[u].pc # "idle"}}
Id_new == CHOOSE id \in UuidIds \ UsedIds : TRUE

NoSession == [id |-> EmptyString, user_id |-> EmptyString, issuer |-> EmptyString,
              issued_at |-> 0, expires_at |-> 0, sign_state |-> Unsigned]

\* Mutant of _new_session: the session is signed and returned, but not
\* recorded in the ledger.
_new_session_NoInsert(M, id, user_id, issued_at) ==
    LET built == finish([id |-> id, user_id |-> user_id, issuer |-> M.issuer,
                         issued_at |-> issued_at, duration |-> M.session_duration])
        session == built.session
        signed == sign(get_signing_key(M), payload(session, M.nonce))
    IN  IF built.panicked
        THEN [res |-> "panic", session |-> NoSession,
              issued_sessions |-> M.issued_sessions]
        ELSE IF ~signed.ok
        THEN [res |-> "KeyError", session |-> NoSession,
              issued_sessions |-> M.issued_sessions]
        ELSE [res |-> "Ok",
              session |-> add_signature(session, signed.signature),
              issued_sessions |-> M.issued_sessions]

\* Mutant of _new_session: the issued_at handed in is dropped and the
\* builder's default, the clock, is used.
_new_session_IgnoresIssuedAt(M, id, user_id, issued_at) ==
    LET built == finish([id |-> id, user_id |-> user_id, issuer |-> M.issuer,
                         issued_at |-> now, duration |-> M.session_duration])
        session == built.session
        signed == sign(get_signing_key(M), payload(session, M.nonce))
    IN  IF built.panicked
        THEN [res |-> "panic", session |-> NoSession,
              issued_sessions |-> M.issued_sessions]
        ELSE IF ~signed.ok
        THEN [res |-> "KeyError", session |-> NoSession,
              issued_sessions |-> M.issued_sessions]
        ELSE [res |-> "Ok",
              session |-> add_signature(session, signed.signature),
              issued_sessions |-> insert(M.issued_sessions, hash(session, M.nonce),
                                         SessionData(session.expires_at))]

\* Mutant of _new_session: the ledger entry is made before the payload is
\* signed.
_new_session_InsertBeforeSign(M, id, user_id, issued_at) ==
    LET built == finish([id |-> id, user_id |-> user_id, issuer |-> M.issuer,
                         issued_at |-> issued_at, duration |-> M.session_duration])
        session == built.session
        signed == sign(get_signing_key(M), payload(session, M.nonce))
        stored == insert(M.issued_sessions, hash(session, M.nonce),
                         SessionData(session.expires_at))
    IN  IF built.panicked
        THEN [res |-> "panic", session |-> NoSession,
              issued_sessions |-> M.issued_sessions]
        ELSE IF ~signed.ok
        THEN [res |-> "KeyError", session |-> NoSession, issued_sessions |-> stored]
        ELSE [res |-> "Ok",
              session |-> add_signature(session, signed.signature),
              issued_sessions |-> stored]

\* SessionManager::_new_session.  issued_at is the Option's value, or the
\* clock (the builder's default) for None.
_new_session(M, id, user_id, issued_at) ==
    LET built == finish([id |-> id, user_id |-> user_id, issuer |-> M.issuer,
                         issued_at |-> issued_at, duration |-> M.session_duration])
        session == built.session
        signed == sign(get_signing_key(M), payload(session, M.nonce))
    IN  IF built.panicked
        THEN [res |-> "panic", session |-> NoSession,
              issued_sessions |-> M.issued_sessions]
        ELSE IF ~signed.ok
        THEN [res |-> "KeyError", session |-> NoSession,
              issued_sessions |-> M.issued_sessions]
        ELSE [res |-> "Ok",
              session |-> add_signature(session, signed.signature),
              issued_sessions |-> insert(M.issued_sessions, hash(session, M.nonce),
                                         SessionData(session.expires_at))]

\* Mutant of verify_session: the ledger is looked up before the session's
\* validity is checked.
verify_session_LedgerFirst(M, session, t) ==
    IF ~contains_key(M.issued_sessions, hash(session, M.nonce))
    THEN "UnknownSession"
    ELSE IF ~is_valid(session, t)
    THEN "InvalidSession"
    ELSE IF ~has_signed(get_signing_key(M), payload(session, M.nonce), signature(session))
    THEN "InvalidSignature"
    ELSE "Ok"

\* Mutant of verify_session: the signature is checked before the ledger.
verify_session_SignatureFirst(M, session, t) ==
    IF ~is_valid(session, t)
    THEN "InvalidSession"
    ELSE IF ~has_signed(get_signing_key(M), payload(session, M.nonce), signature(session))
    THEN "InvalidSignature"
    ELSE IF ~contains_key(M.issued_sessions, hash(session, M.nonce))
    THEN "UnknownSession"
    ELSE "Ok"

\* Mutant of verify_session: only the session's validity is checked.
verify_session_ValidityOnly(M, session, t) ==
    IF ~is_valid(session, t) THEN "InvalidSession" ELSE "Ok"

\* Mutant of verify_session: an empty signature makes the check panic.
verify_session_PanicsOnEmptySignature(M, session, t) ==
    IF ~is_valid(session, t)
    THEN "InvalidSession"
    ELSE IF ~contains_key(M.issued_sessions, hash(session, M.nonce))
    THEN "UnknownSession"
    ELSE IF signature(session) = EmptySignature
    THEN "panic"
    ELSE IF ~has_signed(get_signing_key(M), payload(session, M.nonce), signature(session))
    THEN "InvalidSignature"
    ELSE "Ok"

\* SessionManager::verify_session
verify_session(M, session, t) ==
    IF ~is_valid(session, t)
    THEN "InvalidSession"
    ELSE IF ~contains_key(M.issued_sessions, hash(session, M.nonce))
    THEN "UnknownSession"
    ELSE IF ~has_signed(get_signing_key(M), payload(session, M.nonce), signature(session))
    THEN "InvalidSignature"
    ELSE "Ok"

\* ---------------------------------------------------------------- actions

NoArgs == [id |-> EmptyString, user_id |-> EmptyString, issuer |-> EmptyString,
           issued_at |-> 0, expires_at |-> 0, signature |-> EmptySignature,
           given |-> FALSE]

NoObs == [valid |-> FALSE, expired |-> FALSE, signed |-> FALSE]

NoCall == [op |-> "none", m |-> "-", s |-> NoSession, args |-> NoArgs,
           duration |-> 0, res |-> "-", obs |-> NoObs,
           key |-> NoKey, message |-> EmptyString, filename |-> "-",
           user |-> NoUser, login |-> "-", password |-> "-"]

\* The six values of a signed session, as restore takes them.
ArgsOf(s) == [id |-> s.id, user_id |-> s.user_id, issuer |-> s.issuer,
              issued_at |-> s.issued_at, expires_at |-> s.expires_at,
              signature |-> signature(s), given |-> TRUE]

\* A session nobody issued, as a client may make one up.
ForgedArgs == [id |-> <<"u">>, user_id |-> <<"a">>, issuer |-> <<"x">>,
               issued_at |-> 0, expires_at |-> MaxTime,
               signature |-> JunkSignature, given |-> TRUE]

\* What a client can hand to restore: the values of a session it was given,
\* unchanged or with one of them replaced, or a session it made up.
ClientArgs ==
    LET bases == {ArgsOf(i.s) : i \in issued}
    IN  bases \cup {ForgedArgs}
        \cup {[b EXCEPT !.id = v] : b \in bases, v \in RestoreIds}
        \cup {[b EXCEPT !.user_id = v] : b \in bases, v \in RestoreSubjects}
        \cup {[b EXCEPT !.issuer = v] : b \in bases, v \in RestoreIssuers}
        \cup UNION {{[b EXCEPT !.issued_at = v] :
                        v \in {b.issued_at - 1, b.issued_at + 1} \cap Timestamps} :
                    b \in bases}
        \cup UNION {{[b EXCEPT !.expires_at = v] :
                        v \in {b.expires_at - 1, b.expires_at + 1} \cap Timestamps} :
                    b \in bases}
        \cup {[b EXCEPT !.signature = v] : b \in bases,
                  v \in {signature(i.s) : i \in issued}
                            \cup {JunkSignature, EmptySignature}}

\* Signed sessions a caller holds: those issued, and the one just restored.
HeldSessions == {i.s : i \in issued} \cup (IF is_signed(last.s) THEN {last.s} ELSE {})

\* The manager configurations explored: B with its own nonce and key beside
\* an A with either issuer, and B sharing A's nonce and key.
ManagerConfigs ==
    {[m \in Managers |->
        IF m = "A" THEN SessionManager("k1", <<"n">>, c[1], 1)
                   ELSE SessionManager(c[3], c[2], <<"x">>, 2)] :
        c \in {<<(<<"x">>), (<<"m">>), "k2">>,
                <<EmptyString, (<<"m">>), "k2">>,
                <<(<<"x">>), (<<"n">>), "k1">>}}

\* The request-handling threads that share a manager.
Threads == 1..NumThreads

\* A thread that is in no call.
IdleThread == [pc |-> "idle", op |-> "none", user_id |-> EmptyString,
               s |-> NoSession, signature |-> EmptySignature]

Init ==
    /\ now = 0
    /\ mgr \in ManagerConfigs
    /\ issued = {}
    /\ last = NoCall
    /\ threads = [t \in Threads |-> IdleThread]
    /\ lock = 0
    /\ files = [p \in Paths |-> NoFile]
    /\ held = NoKey
    /\ users = [i \in UserIds |-> NoUser]
    /\ email_index = [e \in Emails |-> NoId]

\* The clock advances.
Tick ==
    /\ now < MaxTime
    /\ now' = now + 1
    /\ last' = NoCall
    /\ UNCHANGED <<mgr, issued, threads, lock, stores>>

Issue(m, via, user_id, issued_at) ==
    LET r == _new_session(mgr[m], Id_new, user_id, issued_at)
    IN  /\ Cardinality(issued) < MaxIssued
        /\ mgr' = [mgr EXCEPT ![m].issued_sessions = r.issued_sessions]
        /\ issued' = IF r.res = "Ok"
                     THEN issued \cup {[m |-> m, s |-> r.session, via |-> via]}
                     ELSE issued
        /\ last' = [NoCall EXCEPT !.op = via, !.m = m, !.s = r.session, !.res = r.res,
                       !.args = [NoArgs EXCEPT !.user_id = user_id,
                                               !.issued_at = issued_at]]
        /\ UNCHANGED <<now, threads, lock, stores>>

\* SessionManager::new_session
NewSession(m, user_id) == Issue(m, "new_session", user_id, now)

\* The issued_at values handed to new_session_with_issued_time: two in the
\* past, of which the earlier is a whole session_duration of A ago and more,
\* and one in the future.
IssuedTimes == {now - 2, now - 1, now + 1} \cap Timestamps

\* SessionManager::new_session_with_issued_time
NewSessionWithIssuedTime(m, user_id, issued_at) ==
    Issue(m, "new_session_with_issued_time", user_id, issued_at)

\* Session::restore, called with values a client supplied.
Restore(a) ==
    /\ last' = [NoCall EXCEPT !.op = "restore", !.args = a, !.res = "Ok",
                   !.s = restore(a.id, a.user_id, a.issuer, a.issued_at,
                                 a.expires_at, a.signature)]
    /\ UNCHANGED <<now, mgr, issued, threads, lock, stores>>

\* Mutant of VerifySession: a session that is accepted is taken out of the
\* ledger.
VerifySession_Consuming(m, s) ==
    LET res == verify_session(mgr[m], s, now)
        ledger == mgr[m].issued_sessions
    IN  /\ last' = [NoCall EXCEPT !.op = "verify_session", !.m = m, !.s = s,
                       !.args = IF last.op = "restore" /\ last.s = s THEN last.args ELSE NoArgs,
                       !.res = res]
        /\ mgr' = IF res = "Ok"
                  THEN [mgr EXCEPT ![m].issued_sessions =
                           [h \in DOMAIN ledger \ {hash(s, mgr[m].nonce)} |-> ledger[h]]]
                  ELSE mgr
        /\ UNCHANGED <<now, issued, threads, lock, stores>>

\* SessionManager::verify_session on a held session.
VerifySession(m, s) ==
    /\ last' = [NoCall EXCEPT !.op = "verify_session", !.m = m, !.s = s,
                   !.args = IF last.op = "restore" /\ last.s = s THEN last.args ELSE NoArgs,
                   !.res = verify_session(mgr[m], s, now)]
    /\ UNCHANGED <<now, mgr, issued, threads, lock, stores>>

Next ==
    \/ Tick
    \/ \E m \in Managers, u \in Subjects : NewSession(m, u)
    \/ \E m \in Managers, u \in Subjects, t \in IssuedTimes :
           NewSessionWithIssuedTime(m, u, t)
    \/ \E a \in ClientArgs : Restore(a)
    \/ \E m \in Managers, s \in HeldSessions : VerifySession(m, s)

Spec == Init /\ [][Next]_vars

\* ------------------------------------------- the session entity on its own

\* Every combination of values restore can be called with.
AnyArgs ==
    [id : {EmptyString, <<"u">>}, user_id : {EmptyString, <<"a">>},
     issuer : {EmptyString, <<"x">>}, issued_at : Timestamps,
     expires_at : Timestamps, signature : {EmptySignature, JunkSignature},
     given : {TRUE}]

InitSession ==
    /\ now = 0
    /\ mgr = [m \in Managers |-> SessionManager("k1", <<"n">>, <<"x">>, 1)]
    /\ issued = {}
    /\ last = NoCall
    /\ threads = [t \in Threads |-> IdleThread]
    /\ lock = 0
    /\ files = [p \in Paths |-> NoFile]
    /\ held = NoKey
    /\ users = [i \in UserIds |-> NoUser]
    /\ email_index = [e \in Emails |-> NoId]

\* Session::build(user_id).with_id(..).with_issuer(..).issued_at(..)
\*     .with_duration(..).finish()
BuildSession(id, user_id, issuer, issued_at, duration) ==
    LET built == finish([id |-> id, user_id |-> user_id, issuer |-> issuer,
                         issued_at |-> issued_at, duration |-> duration])
    IN  /\ last' = [NoCall EXCEPT !.op = "build", !.s = built.session,
                       !.args = [NoArgs EXCEPT !.id = id, !.user_id = user_id,
                                               !.issuer = issuer,
                                               !.issued_at = issued_at],
                       !.duration = duration,
                       !.res = IF built.panicked THEN "panic" ELSE "Ok"]
        /\ UNCHANGED <<now, mgr, issued, threads, lock, stores>>

\* Mutant of AddSignature: add_signature can be called on a Signed session
\* as well.
AddSignature_OnSigned(sig) ==
    /\ last.res = "Ok"
    /\ last.op # "none"
    /\ last' = [last EXCEPT !.op = "add_signature", !.obs = NoObs,
                   !.args.signature = sig,
                   !.s = add_signature(last.s, sig)]
    /\ UNCHANGED <<now, mgr, issued, threads, lock, stores>>

\* Session<Unsigned>::add_signature on the Unsigned session the caller holds.
AddSignature(sig) ==
    /\ last.res = "Ok"
    /\ ~is_signed(last.s)
    /\ last' = [last EXCEPT !.op = "add_signature", !.obs = NoObs,
                   !.args.signature = sig,
                   !.s = add_signature(last.s, sig)]
    /\ UNCHANGED <<now, mgr, issued, threads, lock, stores>>

\* is_valid(), is_expired() and is_signed() of the session the caller holds.
Inspect ==
    /\ last.op \in {"build", "add_signature", "restore", "held"}
    /\ last.res = "Ok"
    /\ last' = [last EXCEPT !.op = "inspect",
                   !.obs = [valid |-> is_valid(last.s, now),
                            expired |-> is_expired(last.s, now),
                            signed |-> is_signed(last.s)]]
    /\ UNCHANGED <<now, mgr, issued, threads, lock, stores>>

\* The clock advances while the caller keeps its session.
Elapse ==
    /\ now < MaxTime
    /\ now' = now + 1
    /\ last' = IF last.op = "none" \/ last.res # "Ok"
               THEN NoCall
               ELSE [last EXCEPT !.op = "held", !.obs = NoObs]
    /\ UNCHANGED <<mgr, issued, threads, lock, stores>>

NextSession ==
    \/ Elapse
    \/ \E id \in UuidIds, u \in Subjects, i \in Issuers, t \in Timestamps,
             d \in Durations : BuildSession(id, u, i, t, d)
    \/ \E sig \in {EmptySignature, JunkSignature} : AddSignature(sig)
    \/ \E a \in AnyArgs : Restore(a)
    \/ Inspect

SpecSession == InitSession /\ [][NextSession]_vars

\* ------------------------------------------- threads sharing one manager

\* UserService::is_valid_session, from what verify_session returned: is_ok()
\* of the result and the session's own validity.
session_check(verify_result, session, t) ==
    LET valid_signature == verify_result = "Ok"
        valid_session == is_valid(session, t)
    IN  valid_session /\ valid_signature

\* The manager the threads call.
Shared == "A"

\* Mutex::lock can return: nobody holds the lock.
lock_free(l) == l = 0

\* Signed sessions the threads present for verification: those the manager
\* returned, and one a client made up.
PresentedSessions ==
    {i.s : i \in issued}
        \cup {restore(ForgedArgs.id, ForgedArgs.user_id, ForgedArgs.issuer,
                      ForgedArgs.issued_at, ForgedArgs.expires_at,
                      ForgedArgs.signature)}

InitThreads ==
    /\ now = 0
    /\ mgr \in {c \in ManagerConfigs : c["B"].key # c[Shared].key}
    /\ issued = {}
    /\ last = NoCall
    /\ threads = [t \in Threads |-> IdleThread]
    /\ lock = 0
    /\ files = [p \in Paths |-> NoFile]
    /\ held = NoKey
    /\ users = [i \in UserIds |-> NoUser]
    /\ email_index = [e \in Emails |-> NoId]

\* The record of a call that thread t has finished with result res, holding
\* session s.
Returned(t, s, res) ==
    [NoCall EXCEPT !.op = threads[t].op, !.m = Shared, !.s = s, !.res = res,
                   !.args = [NoArgs EXCEPT !.user_id = threads[t].user_id],
                   !.obs = [NoObs EXCEPT !.valid =
                               /\ threads[t].op = "is_valid_session"
                               /\ session_check(res, s, now)]]

\* Mutant of CallNewSession: the signed session is handed to the caller as
\* soon as it is signed, before the ledger entry is made.
CallNewSession_ReturnsEarly(t, user_id) ==
    LET M == mgr[Shared]
        built == finish([id |-> Id_new, user_id |-> user_id, issuer |-> M.issuer,
                         issued_at |-> now, duration |-> M.session_duration])
        signed == sign(get_signing_key(M), payload(built.session, M.nonce))
        done(res) == [NoCall EXCEPT !.op = "new_session", !.m = Shared, !.res = res,
                                    !.args = [NoArgs EXCEPT !.user_id = user_id]]
    IN  /\ threads[t].pc = "idle"
        /\ UuidIds \ UsedIds # {}
        /\ IF built.panicked
           THEN last' = done("panic") /\ UNCHANGED <<threads, issued>>
           ELSE IF ~signed.ok
           THEN last' = done("KeyError") /\ UNCHANGED <<threads, issued>>
           ELSE /\ threads' = [threads EXCEPT ![t] =
                       [IdleThread EXCEPT !.pc = "lock", !.op = "new_session",
                                          !.user_id = user_id, !.s = built.session,
                                          !.signature = signed.signature]]
                /\ issued' = issued \cup
                       {[m |-> Shared, via |-> "new_session",
                         s |-> add_signature(built.session, signed.signature)]}
                /\ UNCHANGED last
        /\ UNCHANGED <<now, mgr, lock, stores>>

\* Thread t enters new_session(user_id): _new_session up to the signature
\* (builder, finish, payload, sign), which touches no shared state.
CallNewSession(t, user_id) ==
    LET M == mgr[Shared]
        built == finish([id |-> Id_new, user_id |-> user_id, issuer |-> M.issuer,
                         issued_at |-> now, duration |-> M.session_duration])
        signed == sign(get_signing_key(M), payload(built.session, M.nonce))
        done(res) == [NoCall EXCEPT !.op = "new_session", !.m = Shared, !.res = res,
                                    !.args = [NoArgs EXCEPT !.user_id = user_id]]
    IN  /\ threads[t].pc = "idle"
        /\ UuidIds \ UsedIds # {}
        /\ IF built.panicked
           THEN last' = done("panic") /\ UNCHANGED threads
           ELSE IF ~signed.ok
           THEN last' = done("KeyError") /\ UNCHANGED threads
           ELSE /\ threads' = [threads EXCEPT ![t] =
                       [IdleThread EXCEPT !.pc = "lock", !.op = "new_session",
                                          !.user_id = user_id, !.s = built.session,
                                          !.signature = signed.signature]]
                /\ UNCHANGED last
        /\ UNCHANGED <<now, mgr, issued, lock, stores>>

\* Thread t enters verify_session(session): the validity check.
CallVerifySession(t, session) ==
    /\ threads[t].pc = "idle"
    /\ IF ~is_valid(session, now)
       THEN /\ last' = [NoCall EXCEPT !.op = "verify_session", !.m = Shared,
                                      !.s = session, !.res = "InvalidSession"]
            /\ UNCHANGED threads
       ELSE /\ threads' = [threads EXCEPT ![t] =
                   [IdleThread EXCEPT !.pc = "lock", !.op = "verify_session",
                                      !.s = session]]
            /\ UNCHANGED last
    /\ UNCHANGED <<now, mgr, issued, lock, stores>>

\* Mutant of MutexLock: the lock is taken whether or not it is held.
MutexLock_NoWait(t) ==
    /\ threads[t].pc = "lock"
    /\ lock' = t
    /\ threads' = [threads EXCEPT ![t].pc =
           IF threads[t].op = "new_session" THEN "insert" ELSE "contains_key"]
    /\ UNCHANGED <<now, mgr, issued, last, stores>>

\* self.issued_sessions.lock(): thread t waits until nobody holds the Mutex
\* and takes it.
MutexLock(t) ==
    /\ threads[t].pc = "lock"
    /\ lock_free(lock)
    /\ lock' = t
    /\ threads' = [threads EXCEPT ![t].pc =
           IF threads[t].op = "new_session" THEN "insert" ELSE "contains_key"]
    /\ UNCHANGED <<now, mgr, issued, last, stores>>

\* Mutant of Insert: the guard outlives the statement, the Mutex stays
\* locked.
Insert_KeepsGuard(t) ==
    LET M == mgr[Shared]
        session == threads[t].s
    IN  /\ threads[t].pc = "insert"
        /\ mgr' = [mgr EXCEPT ![Shared].issued_sessions =
               insert(M.issued_sessions, hash(session, M.nonce),
                      SessionData(session.expires_at))]
        /\ threads' = [threads EXCEPT ![t].pc = "add_signature"]
        /\ UNCHANGED <<now, issued, last, lock, stores>>

\* _new_session: insert(hash, SessionData) under the guard, which is dropped
\* at the end of the statement.
Insert(t) ==
    LET M == mgr[Shared]
        session == threads[t].s
    IN  /\ threads[t].pc = "insert"
        /\ mgr' = [mgr EXCEPT ![Shared].issued_sessions =
               insert(M.issued_sessions, hash(session, M.nonce),
                      SessionData(session.expires_at))]
        /\ lock' = 0
        /\ threads' = [threads EXCEPT ![t].pc = "add_signature"]
        /\ UNCHANGED <<now, issued, last, stores>>

\* _new_session: Ok(session.add_signature(&signature)) returns to the
\* caller.
ReturnSession(t) ==
    LET signed == add_signature(threads[t].s, threads[t].signature)
    IN  /\ threads[t].pc = "add_signature"
        /\ threads' = [threads EXCEPT ![t] = IdleThread]
        /\ last' = Returned(t, signed, "Ok")
        /\ issued' = issued \cup {[m |-> Shared, s |-> signed, via |-> "new_session"]}
        /\ UNCHANGED <<now, mgr, lock, stores>>

\* verify_session: contains_key(hash) under the guard, which is dropped at
\* the end of the condition.
ContainsKey(t) ==
    LET M == mgr[Shared]
    IN  /\ threads[t].pc = "contains_key"
        /\ lock' = 0
        /\ IF ~contains_key(M.issued_sessions, hash(threads[t].s, M.nonce))
           THEN /\ threads' = [threads EXCEPT ![t] = IdleThread]
                /\ last' = Returned(t, threads[t].s, "UnknownSession")
           ELSE /\ threads' = [threads EXCEPT ![t].pc = "has_signed"]
                /\ UNCHANGED last
        /\ UNCHANGED <<now, mgr, issued, stores>>

\* verify_session: the signature check and the return.
HasSigned(t) ==
    LET M == mgr[Shared]
        session == threads[t].s
    IN  /\ threads[t].pc = "has_signed"
        /\ threads' = [threads EXCEPT ![t] = IdleThread]
        /\ last' = Returned(t, session,
               IF ~has_signed(get_signing_key(M), payload(session, M.nonce),
                              signature(session))
               THEN "InvalidSignature"
               ELSE "Ok")
        /\ UNCHANGED <<now, mgr, issued, lock, stores>>

\* The clock advances between calls: Utc::now() is read where a call starts
\* (the builder's issued_at, is_valid) and nowhere later in it.
TickBetweenCalls ==
    /\ \A t \in Threads : threads[t].pc = "idle"
    /\ Tick

\* The steps of a call that thread t is in.
ThreadStep(t) ==
    \/ MutexLock(t)
    \/ Insert(t)
    \/ ReturnSession(t)
    \/ ContainsKey(t)
    \/ HasSigned(t)

\* The threads' calls, at one instant of the clock.
NextCalls ==
    \/ \E t \in Threads, u \in Subjects : CallNewSession(t, u)
    \/ \E t \in Threads, s \in PresentedSessions : CallVerifySession(t, s)
    \/ \E t \in Threads : ThreadStep(t)

NextThreads ==
    \/ TickBetweenCalls
    \/ NextCalls

SpecThreads == InitThreads /\ [][NextThreads]_vars

\* The threads' calls under a fair scheduler: every thread that can take a
\* step takes one, and a thread waiting for the Mutex gets it if it is free
\* again and again.  No step of a call reads the clock after the call has
\* started, so the clock is left where it is.
SpecThreadsFair ==
    /\ InitThreads
    /\ [][NextCalls]_vars
    /\ \A t \in Threads : SF_vars(ThreadStep(t))

\* ------------------------------------------------------ a poisoned ledger

\* The Mutex after a thread has panicked while holding its guard: free, and
\* every later lock() returns Err(PoisonError).
Poisoned == -1

\* Thread t enters UserService::is_valid_session(session), which calls
\* verify_session: the validity check.
CallIsValidSession(t, session) ==
    /\ threads[t].pc = "idle"
    /\ IF ~is_valid(session, now)
       THEN /\ last' = [NoCall EXCEPT !.op = "is_valid_session", !.m = Shared,
                                      !.s = session, !.res = "InvalidSession",
                                      !.obs = [NoObs EXCEPT !.valid =
                                          session_check("InvalidSession", session, now)]]
            /\ UNCHANGED threads
       ELSE /\ threads' = [threads EXCEPT ![t] =
                   [IdleThread EXCEPT !.pc = "lock", !.op = "is_valid_session",
                                      !.s = session]]
            /\ UNCHANGED last
    /\ UNCHANGED <<now, mgr, issued, lock, stores>>

\* A thread unwinds while the guard is alive in the insert statement of
\* _new_session (a panic raised by hash, SessionData or HashMap::insert):
\* dropping the guard during the unwinding poisons the Mutex.  The call
\* returns nothing.
PanicUnderGuard(t) ==
    /\ threads[t].pc = "insert"
    /\ lock = t
    /\ lock' = Poisoned
    /\ threads' = [threads EXCEPT ![t] = IdleThread]
    /\ last' = Returned(t, NoSession, "panic")
    /\ UNCHANGED <<now, mgr, issued, stores>>

\* self.issued_sessions.lock()? on the poisoned Mutex: the PoisonError is
\* converted into SessionError::PoisonError and returned; the guard inside
\* the error is dropped, the Mutex stays poisoned.
LockPoisoned(t) ==
    /\ threads[t].pc = "lock"
    /\ lock = Poisoned
    /\ threads' = [threads EXCEPT ![t] = IdleThread]
    /\ last' = Returned(t, IF threads[t].op = "new_session" THEN NoSession
                                                            ELSE threads[t].s,
                        "PoisonError")
    /\ UNCHANGED <<now, mgr, issued, lock, stores>>

NextPoison ==
    \/ \E t \in Threads, u \in Subjects : CallNewSession(t, u)
    \/ \E t \in Threads, s \in PresentedSessions : CallIsValidSession(t, s)
    \/ \E t \in Threads : ThreadStep(t)
    \/ \E t \in Threads : PanicUnderGuard(t)
    \/ \E t \in Threads : LockPoisoned(t)

\* The threads' calls at one instant of the clock, with verification called
\* through the service and with a panic possible under the guard.
SpecPoison == InitThreads /\ [][NextPoison]_vars

\* ------------------------------------------------ the service boundary

\* Mutant of is_valid_session: the manager is not asked, the session's own
\* validity decides.
is_valid_session_ValidityOnly(M, session, t) == is_valid(session, t)

\* UserService::is_valid_session
is_valid_session(M, session, t) ==
    session_check(verify_session(M, session, t), session, t)

\* Mutant of TokenClaims: iat and exp are rounded up to the next whole second.
TokenClaims_RoundsUp(s) ==
    [sub |-> s.user_id,
     iat |-> (s.issued_at + TicksPerSec - 1) \div TicksPerSec,
     exp |-> (s.expires_at + TicksPerSec - 1) \div TicksPerSec,
     iss |-> s.issuer, id |-> s.id, sig |-> signature(s)]

\* TokenClaims of a session, as get_authentication fills them: iat and exp
\* are timestamp(), whole seconds.
TokenClaims(s) ==
    [sub |-> s.user_id, iat |-> s.issued_at \div TicksPerSec,
     exp |-> s.expires_at \div TicksPerSec, iss |-> s.issuer, id |-> s.id,
     sig |-> signature(s)]

NoClaims == [sub |-> EmptyString, iat |-> 0, exp |-> 0, iss |-> EmptyString,
             id |-> EmptyString, sig |-> EmptySignature]

\* The requests a client sends: no Authorization header, one shorter than
\* the seven characters of the scheme prefix, one with a token that does not
\* decode, and tokens that decode to the claims of a session the client was
\* given, unchanged or with one value replaced, to made-up claims, or to
\* claims with a negative iat.
Requests ==
    LET claims == {TokenClaims(restore(a.id, a.user_id, a.issuer, a.issued_at,
                                       a.expires_at, a.signature)) : a \in ClientArgs}
    IN  {[header |-> h, claims |-> NoClaims] : h \in {"none", "short", "undecodable"}}
        \cup {[header |-> "bearer", claims |-> c] : c \in claims}
        \cup {[header |-> "bearer", claims |-> [TokenClaims(i.s) EXCEPT !.iat = -1]] :
                 i \in issued}

\* The HTTP answers of the middleware.
ErrorBadRequest(msg) == [status |-> 400, body |-> msg]
ErrorUnauthorized(msg) == [status |-> 401, body |-> msg]
Accepted == [status |-> 200, body |-> "-"]
Panicked == [status |-> 0, body |-> "panic"]

\* JwtMiddleware::from_request: the answer, the session restored from the
\* claims (if the handler got that far) and whether it was attached to the
\* request.
from_request(M, req, t) ==
    LET c == req.claims
        session == restore(c.id, c.sub, c.iss, c.iat * TicksPerSec,
                           c.exp * TicksPerSec, c.sig)
        out(res, s, reached, attached) ==
            [res |-> res, session |-> s, reached |-> reached, attached |-> attached]
    IN  IF req.header = "none"
        THEN out(ErrorBadRequest("no token"), NoSession, FALSE, FALSE)
        ELSE IF req.header = "short"
        THEN out(Panicked, NoSession, FALSE, FALSE)
        ELSE IF req.header = "undecodable"
        THEN out(ErrorBadRequest("invalid token"), NoSession, FALSE, FALSE)
        ELSE IF c.iat < 0 \/ c.exp < 0
        THEN out(Panicked, NoSession, FALSE, FALSE)
        ELSE IF ~is_valid_session(M, session, t)
        THEN out(ErrorUnauthorized("invalid session"), session, TRUE, FALSE)
        ELSE out(Accepted, session, TRUE, TRUE)

InitService ==
    /\ now = 0
    /\ mgr \in {c \in ManagerConfigs : c["B"].key # c[Shared].key}
    /\ issued = {}
    /\ last = NoCall
    /\ threads = [t \in Threads |-> IdleThread]
    /\ lock = 0
    /\ files = [p \in Paths |-> NoFile]
    /\ held = NoKey
    /\ users = [i \in UserIds |-> NoUser]
    /\ email_index = [e \in Emails |-> NoId]

\* A request arrives at a handler guarded by the JWT middleware.  obs.valid
\* tells whether is_valid_session was reached, obs.signed whether the session
\* was attached to the request.
FromRequest(req) ==
    LET r == from_request(mgr[Shared], req, now)
    IN  /\ last' = [NoCall EXCEPT !.op = "from_request", !.m = Shared,
                       !.s = r.session, !.res = r.res,
                       !.obs = [NoObs EXCEPT !.valid = r.reached,
                                             !.signed = r.attached]]
        /\ UNCHANGED <<now, mgr, issued, threads, lock, stores>>

NextService ==
    \/ Tick
    \/ \E u \in Subjects : NewSession(Shared, u)
    \/ \E req \in Requests : FromRequest(req)

SpecService == InitService /\ [][NextService]_vars

\* ------------------------------------------------ the key and its file

\* Mutant of save: the file is created and nothing is written to it.
save_CreatesOnly(der_bytes, fs, filename) ==
    IF filename \notin DOMAIN fs
    THEN [res |-> "IoError", files |-> fs]
    ELSE [res |-> "Ok", files |-> [fs EXCEPT ![filename] = ""]]

\* Key::save: File::create(filename)? and write_all(der_bytes)?.  fs maps
\* the paths of existing directories to the bytes stored there.
save(der_bytes, fs, filename) ==
    IF filename \notin DOMAIN fs
    THEN [res |-> "IoError", files |-> fs]
    ELSE [res |-> "Ok", files |-> [fs EXCEPT ![filename] = der_bytes]]

\* Key::open: fs::read(filename)? and into(), which keeps the bytes as they
\* are; nothing looks at what the bytes encode.
open(fs, filename) ==
    IF filename \notin DOMAIN fs
    THEN [res |-> "IoError", key |-> NoKey]
    ELSE IF fs[filename] = NoFile
    THEN [res |-> "IoError", key |-> NoKey]
    ELSE [res |-> "Ok", key |-> fs[filename]]

\* Signatures handed to has_signed: those sign can produce, arbitrary bytes
\* and no bytes.
Signatures ==
    {sign(k, msg).signature : k \in GeneratedKeys, msg \in Messages}
        \cup {JunkSignature, EmptySignature}

\* No Key is held yet; the file "q" may exist already, holding bytes that no
\* Key::save wrote.
InitKey ==
    /\ now = 0
    /\ mgr = [m \in Managers |-> SessionManager("k1", <<"n">>, <<"x">>, 1)]
    /\ issued = {}
    /\ last = NoCall
    /\ threads = [t \in Threads |-> IdleThread]
    /\ lock = 0
    /\ files \in {[p \in Paths |-> NoFile],
                  [p \in Paths |-> IF p = "q" THEN "junk" ELSE NoFile]}
    /\ held = NoKey
    /\ users = [i \in UserIds |-> NoUser]
    /\ email_index = [e \in Emails |-> NoId]

\* Key::new: a pkcs8 document from the system's random generator.
KeyNew(k) ==
    /\ held' = k
    /\ last' = [NoCall EXCEPT !.op = "new", !.key = k, !.res = "Ok"]
    /\ UNCHANGED <<now, mgr, issued, threads, lock, files, users, email_index>>

\* Key::from(bytes): any bytes make a Key.
KeyFrom(bytes) ==
    /\ held' = bytes
    /\ last' = [NoCall EXCEPT !.op = "from", !.key = bytes, !.res = "Ok"]
    /\ UNCHANGED <<now, mgr, issued, threads, lock, files, users, email_index>>

\* key.save(filename) on the Key held.
KeySave(filename) ==
    LET r == save(held, files, filename)
    IN  /\ held # NoKey
        /\ files' = r.files
        /\ last' = [NoCall EXCEPT !.op = "save", !.key = held,
                                  !.filename = filename, !.res = r.res]
        /\ UNCHANGED <<now, mgr, issued, threads, lock, held, users, email_index>>

\* Key::open(filename); the Key returned replaces the one held.
KeyOpen(filename) ==
    LET r == open(files, filename)
    IN  /\ held' = IF r.res = "Ok" THEN r.key ELSE held
        /\ last' = [NoCall EXCEPT !.op = "open", !.key = r.key,
                                  !.filename = filename, !.res = r.res]
        /\ UNCHANGED <<now, mgr, issued, threads, lock, files, users, email_index>>

\* key.sign(message) on the Key held.
KeySign(message) ==
    LET r == sign(held, message)
    IN  /\ held # NoKey
        /\ last' = [NoCall EXCEPT !.op = "sign", !.key = held, !.message = message,
                                  !.res = IF r.ok THEN "Ok" ELSE "KeyError",
                                  !.args = [NoArgs EXCEPT !.signature = r.signature]]
        /\ UNCHANGED <<now, mgr, issued, threads, lock, stores>>

\* key.has_signed(message, signature) on the Key held; obs.valid is the
\* boolean returned.
KeyHasSigned(message, sig) ==
    /\ held # NoKey
    /\ last' = [NoCall EXCEPT !.op = "has_signed", !.key = held, !.message = message,
                              !.res = "Ok",
                              !.args = [NoArgs EXCEPT !.signature = sig],
                              !.obs = [NoObs EXCEPT !.valid =
                                          has_signed(held, message, sig)]]
    /\ UNCHANGED <<now, mgr, issued, threads, lock, stores>>

\* A manager is made that signs with the Key held.
ManagerWithKey ==
    /\ held # NoKey
    /\ issued = {}
    /\ mgr' = [mgr EXCEPT ![Shared] =
           SessionManager(held, mgr[Shared].nonce, mgr[Shared].issuer,
                          mgr[Shared].session_duration)]
    /\ last' = [NoCall EXCEPT !.op = "with_key", !.m = Shared, !.key = held,
                              !.res = "Ok"]
    /\ UNCHANGED <<now, issued, threads, lock, stores>>

NextKey ==
    \/ \E k \in GeneratedKeys : KeyNew(k)
    \/ \E b \in Blobs : KeyFrom(b)
    \/ \E f \in FileNames : KeySave(f)
    \/ \E f \in FileNames : KeyOpen(f)
    \/ \E msg \in Messages : KeySign(msg)
    \/ \E msg \in Messages, sig \in Signatures : KeyHasSigned(msg, sig)
    \/ ManagerWithKey
    \/ \E u \in Subjects : NewSession(Shared, u)

SpecKey == InitKey /\ [][NextKey]_vars

\* ------------------------------------------- the in-memory user repository

\* An Option<&str> argument that is None.
None == "none"

\* The repository: Memory's two maps.
Memory(us, index) == [users |-> us, email_index |-> index]

\* Memory::exists
exists(R, id, email) ==
    LET user_exists == IF id = None THEN FALSE ELSE R.users[id] # NoUser
        email_exists == IF email = None THEN FALSE ELSE R.email_index[email] # NoId
    IN  <<user_exists, email_exists>>

\* Memory::create.  Only (true, false) and (false, true) return early.
create(R, user) ==
    LET found == exists(R, user.id, user.email)
    IN  IF found = <<TRUE, FALSE>>
        THEN [res |-> "DuplicateID", repo |-> R]
        ELSE IF found = <<FALSE, TRUE>>
        THEN [res |-> "DuplicateEmail", repo |-> R]
        ELSE [res |-> "Ok",
              repo |-> Memory([R.users EXCEPT ![user.id] = user],
                              [R.email_index EXCEPT ![user.email] = user.id])]

\* Memory::read_by_id
read_by_id(R, id) ==
    IF R.users[id] = NoUser
    THEN [res |-> "NotFound", user |-> NoUser]
    ELSE [res |-> "Ok", user |-> R.users[id]]

\* Memory::read_by_email
read_by_email(R, email) ==
    IF R.email_index[email] = NoId
    THEN [res |-> "NotFound", user |-> NoUser]
    ELSE read_by_id(R, R.email_index[email])

\* Memory::update
update(R, user) ==
    IF ~exists(R, user.id, None)[1]
    THEN [res |-> "NotFound", repo |-> R]
    ELSE LET old_email == R.users[user.id].email
             stored == [R.users EXCEPT ![user.id] = user]
         IN  IF user.email # old_email
             THEN [res |-> "Ok",
                   repo |-> Memory(stored,
                                   [R.email_index EXCEPT ![old_email] = NoId,
                                                         ![user.email] = user.id])]
             ELSE [res |-> "Ok", repo |-> Memory(stored, R.email_index)]

\* Memory::delete
delete(R, id) ==
    IF ~exists(R, id, None)[1]
    THEN [res |-> "NotFound", repo |-> R]
    ELSE LET email == R.users[id].email
         IN  [res |-> "Ok",
              repo |-> Memory([R.users EXCEPT ![id] = NoUser],
                              [R.email_index EXCEPT ![email] = NoId])]

\* Memory::new()
InitRepo ==
    /\ now = 0
    /\ mgr = [m \in Managers |-> SessionManager("k1", <<"n">>, <<"x">>, 1)]
    /\ issued = {}
    /\ last = NoCall
    /\ threads = [t \in Threads |-> IdleThread]
    /\ lock = 0
    /\ files = [p \in Paths |-> NoFile]
    /\ held = NoKey
    /\ users = [i \in UserIds |-> NoUser]
    /\ email_index = [e \in Emails |-> NoId]

\* A write to the repository: its result is stored and the call recorded,
\* with the user it was about.
Write(op, r, user) ==
    /\ users' = r.repo.users
    /\ email_index' = r.repo.email_index
    /\ last' = [NoCall EXCEPT !.op = op, !.res = r.res, !.user = user]
    /\ UNCHANGED <<now, mgr, issued, threads, lock, files, held>>

\* store.create(&user)
Create(user) == Write("create", create(Memory(users, email_index), user), user)

\* store.update(&user)
Update(user) == Write("update", update(Memory(users, email_index), user), user)

\* store.delete(id); the call is recorded with the user that id stood for.
Delete(id) == Write("delete", delete(Memory(users, email_index), id), users[id])

\* store.read_by_id(id)
ReadById(id) ==
    LET r == read_by_id(Memory(users, email_index), id)
    IN  /\ last' = [NoCall EXCEPT !.op = "read_by_id", !.res = r.res, !.user = r.user]
        /\ UNCHANGED <<now, mgr, issued, threads, lock, stores>>

\* store.read_by_email(email)
ReadByEmail(email) ==
    LET r == read_by_email(Memory(users, email_index), email)
    IN  /\ last' = [NoCall EXCEPT !.op = "read_by_email", !.res = r.res,
                                  !.user = r.user]
        /\ UNCHANGED <<now, mgr, issued, threads, lock, stores>>

NextRepo ==
    \/ \E u \in Users : Create(u)
    \/ \E u \in Users : Update(u)
    \/ \E i \in UserIds : Delete(i)
    \/ \E i \in UserIds : ReadById(i)
    \/ \E e \in Emails : ReadByEmail(e)

SpecRepo == InitRepo /\ [][NextRepo]_vars

\* ------------------------------------------------------- authentication

\* Passwords a client presents.
Passwords == {"pw1", "pw2"}

\* hash_password, with the salt left out: the stored hash of a password.
hash_password(password) == IF password = "pw1" THEN "h1" ELSE "h2"

\* A stored hash that is no hash at all (a user record that was deserialized,
\* not made by User::new).
MalformedHash == "junk"

\* The users stored for authentication: one made by User::new with password
\* "pw1", one whose stored hash does not parse.
StoredUsers ==
    {[id |-> "1", email |-> "e1", password_hash |-> hash_password("pw1")],
     [id |-> "2", email |-> "e2", password_hash |-> MalformedHash]}

\* User::validate_password: an error when the stored hash does not parse,
\* else whether the password is the one that was hashed.
validate_password(user, password) ==
    IF user.password_hash \notin PasswordHashes
    THEN "Err"
    ELSE IF user.password_hash = hash_password(password)
    THEN "Ok(true)"
    ELSE "Ok(false)"

\* user.id.to_string()
id_to_string(id) == <<id>>

\* The end of both authenticate functions:
\* new_session(&user.id.to_string()).expect("should be able to create session")
expect_new_session(M, id, user, t) ==
    LET r == _new_session(M, id, id_to_string(user.id), t)
    IN  [res |-> IF r.res = "Ok" THEN "Ok" ELSE "panic",
         session |-> r.session, issued_sessions |-> r.issued_sessions]

\* An authenticate call that ends with error err before a session is made.
auth_error(M, err) ==
    [res |-> err, session |-> NoSession, issued_sessions |-> M.issued_sessions]

\* UserService::authenticate of libsvc
authenticate(R, M, id, login, password, t) ==
    LET found == read_by_email(R, login)
    IN  IF found.res # "Ok"
        THEN auth_error(M, found.res)
        ELSE IF validate_password(found.user, password) # "Ok(true)"
        THEN auth_error(M, "Unauthorized")
        ELSE expect_new_session(M, id, found.user, t)

\* UserService::authenticate of the user crate (impl Authenticator)
Authenticator_authenticate(R, M, id, login, password, t) ==
    LET found == read_by_email(R, login)
    IN  IF found.res # "Ok"
        THEN auth_error(M, "UserNotFound")
        ELSE IF validate_password(found.user, password) \in {"Ok(true)", "Err"}
        THEN expect_new_session(M, id, found.user, t)
        ELSE auth_error(M, "WrongPassword")

\* Memory::new() and SessionManager::new().build()
InitAuth == InitRepo

\* An authenticate call on the service, recorded with its inputs.
Authenticated(op, r, login, password) ==
    /\ Cardinality(issued) < MaxIssued
    /\ mgr' = [mgr EXCEPT ![Shared].issued_sessions = r.issued_sessions]
    /\ issued' = IF r.res = "Ok"
                 THEN issued \cup {[m |-> Shared, s |-> r.session, via |-> op]}
                 ELSE issued
    /\ last' = [NoCall EXCEPT !.op = op, !.m = Shared, !.s = r.session,
                   !.res = r.res, !.login = login, !.password = password]
    /\ UNCHANGED <<now, threads, lock, stores>>

\* service.authenticate(login, password), libsvc
Authenticate(login, password) ==
    Authenticated("authenticate",
                  authenticate(Memory(users, email_index), mgr[Shared], Id_new,
                               login, password, now),
                  login, password)

\* service.authenticate(login, password), user crate
AuthenticatorAuthenticate(login, password) ==
    Authenticated("Authenticator::authenticate",
                  Authenticator_authenticate(Memory(users, email_index),
                                             mgr[Shared], Id_new, login,
                                             password, now),
                  login, password)

NextAuth ==
    \/ Tick
    \/ \E u \in StoredUsers : Create(u)
    \/ \E i \in UserIds : Delete(i)
    \/ \E e \in Emails, p \in Passwords : Authenticate(e, p)
    \/ \E e \in Emails, p \in Passwords : AuthenticatorAuthenticate(e, p)

SpecAuth == InitAuth /\ [][NextAuth]_vars

\* ------------------------------------------- strings that hold the separator

\* Subjects handed to new_session, one of them with a ':' in it.
ColonSubjects == {<<"a">>, <<"a", ":", "b">>}

\* What a client can hand to restore from a session it was given: its id and
\* subject cut at another place, or replaced, and its other values kept or
\* changed.
ResplitArgs ==
    UNION {{[ArgsOf(i.s) EXCEPT !.id = id, !.user_id = user_id, !.issuer = issuer,
                                !.issued_at = issued_at] :
                id \in {i.s.id, i.s.id \o <<":", "a">>},
                user_id \in {<<"a">>, <<"b">>, <<"a", ":", "b">>},
                issuer \in {i.s.issuer, <<"y">>},
                issued_at \in Timestamps} :
           i \in issued}

InitCanonical ==
    /\ now = 0
    /\ mgr = [m \in Managers |-> SessionManager("k1", <<"n">>, <<"x">>, 2)]
    /\ issued = {}
    /\ last = NoCall
    /\ threads = [t \in Threads |-> IdleThread]
    /\ lock = 0
    /\ files = [p \in Paths |-> NoFile]
    /\ held = NoKey
    /\ users = [i \in UserIds |-> NoUser]
    /\ email_index = [e \in Emails |-> NoId]

NextCanonical ==
    \/ \E u \in ColonSubjects : NewSession(Shared, u)
    \/ \E a \in ResplitArgs : Restore(a)
    \/ \E s \in HeldSessions : VerifySession(Shared, s)

\* One manager, subjects that may hold a ':', and a client that restores
\* what it was given with the strings cut elsewhere.
SpecCanonical == InitCanonical /\ [][NextCanonical]_vars

\* ================================================================= claims

\* The five signed attributes of two sessions agree.
SameAttributes(s, t) ==
    /\ s.id = t.id
    /\ s.user_id = t.user_id
    /\ s.issuer = t.issuer
    /\ s.issued_at = t.issued_at
    /\ s.expires_at = t.expires_at

\* The names of the restore arguments in which a and b differ.
Changed(a, b) ==
    {f \in {"id", "user_id", "issuer", "issued_at", "expires_at", "signature"} :
        a[f] # b[f]}

Verified == last.op = "verify_session"

\* The verified session was restored from the values of a session that the
\* verifying manager issued, with exactly one value, among fields, replaced.
TamperedIn(fields) ==
    /\ Verified
    /\ last.args.given
    /\ \E i \in issued :
          /\ i.m = last.m
          /\ \E f \in fields : Changed(last.args, ArgsOf(i.s)) = {f}

TamperFields == {"signature", "user_id", "issuer", "issued_at", "expires_at"}

\* ---- C1
\* C1 as stated: a session returned by new_session(subject), verified on the
\* manager that issued it before the clock passes its expires_at, is accepted.
C1_IssuedSessionVerifies ==
    (/\ Verified
     /\ \E i \in issued : i.m = last.m /\ i.via = "new_session" /\ i.s = last.s
     /\ now <= last.s.expires_at)
        => last.res = "Ok"

\* C1 amended: the same, for a manager whose issuer is not the empty string.
C1_IssuedSessionVerifiesWithIssuer ==
    (/\ Verified
     /\ \E i \in issued : i.m = last.m /\ i.via = "new_session" /\ i.s = last.s
     /\ now <= last.s.expires_at
     /\ mgr[last.m].issuer # EmptyString)
        => last.res = "Ok"

C1_Witness ==
    /\ Verified
    /\ \E i \in issued : i.m = last.m /\ i.via = "new_session" /\ i.s = last.s
    /\ now <= last.s.expires_at
    /\ mgr[last.m].issuer # EmptyString
    /\ last.res = "Ok"

\* ---- C2
\* C2: verify_session answers Ok only for a session whose id, subject,
\* issuer, issued_at and expires_at are those of a session the verifying
\* manager returned from new_session or new_session_with_issued_time.
C2_OnlyIssuedAttributesVerify ==
    (Verified /\ last.res = "Ok")
        => \E i \in issued : i.m = last.m /\ SameAttributes(i.s, last.s)

\* ---- C3
\* C3: verify_session checks validity, then ledger membership, then the
\* signature, stops at the first check that fails and names it: an invalid
\* session gives InvalidSession whatever the ledger and the signature say, a
\* valid one missing from the ledger gives UnknownSession whatever the
\* signature says, and InvalidSignature is given only to a valid session of
\* the ledger.
C3_CheckOrder ==
    Verified =>
        LET s == last.s
            M == mgr[last.m]
            valid == /\ now <= s.expires_at
                     /\ now >= s.issued_at
                     /\ s.user_id # EmptyString
                     /\ s.issuer # EmptyString
            known == hash(s, M.nonce) \in DOMAIN M.issued_sessions
            authentic == signature(s) = sign(get_signing_key(M), payload(s, M.nonce)).signature
        IN  /\ ~valid => last.res = "InvalidSession"
            /\ (valid /\ ~known) => last.res = "UnknownSession"
            /\ (valid /\ known /\ ~authentic) => last.res = "InvalidSignature"
            /\ last.res = "InvalidSignature" => (valid /\ known)
            /\ (valid /\ known /\ authentic) => last.res = "Ok"

\* An expired session that is neither in the ledger nor signed by the key
\* is reported as InvalidSession.
C3_Witness ==
    /\ Verified
    /\ last.res = "InvalidSession"
    /\ hash(last.s, mgr[last.m].nonce) \notin DOMAIN mgr[last.m].issued_sessions
    /\ ~has_signed(mgr[last.m].key, payload(last.s, mgr[last.m].nonce),
                   signature(last.s))

\* ---- C4
\* C4: an Unsigned session is never valid and never signed, whatever its
\* attributes and whatever the time.
C4_UnsignedNeverValid ==
    (last.op = "inspect" /\ last.s.sign_state = Unsigned)
        => (~last.obs.valid /\ ~last.obs.signed)

\* A freshly built session that is not expired and has every attribute set.
C4_Witness ==
    /\ last.op = "inspect"
    /\ last.s.sign_state = Unsigned
    /\ last.s.issued_at <= now
    /\ now <= last.s.expires_at
    /\ last.s.user_id # EmptyString
    /\ last.s.issuer # EmptyString
    /\ ~last.obs.valid

C6_ExpiredIff ==
    last.op = "inspect" => (last.obs.expired <=> now > last.s.expires_at)

\* A session whose expires_at is the current instant is not expired.
C6_Witness ==
    /\ last.op = "inspect"
    /\ last.s.expires_at = now
    /\ ~last.obs.expired

\* ---- C7
\* C7: restore, given the six values of an issued session, returns a session
\* equal to it, and the verifying manager accepts the restored session
\* whenever it accepts the issued one.
C7_RestoreRoundTrip ==
    \A i \in issued :
        (last.op \in {"restore", "verify_session"} /\ last.args = ArgsOf(i.s))
            => /\ last.s = i.s
               /\ (Verified /\ verify_session(mgr[last.m], i.s, now) = "Ok")
                      => last.res = "Ok"

C7_Witness ==
    /\ Verified
    /\ \E i \in issued : last.args = ArgsOf(i.s) /\ i.m = last.m
    /\ last.res = "Ok"

\* ---- C8
\* C8: a session restored from an issued session's values with one change
\* to the signature, the subject, the issuer, issued_at or expires_at is
\* never accepted by the manager that issued it.
C8_TamperedNeverAccepted ==
    TamperedIn(TamperFields) => last.res # "Ok"

\* ---- C9
\* C9 as stated: the error for such a changed session is InvalidSignature or
\* InvalidSession.
C9_TamperErrorKinds ==
    (TamperedIn(TamperFields) /\ last.res # "Ok")
        => last.res \in {"InvalidSignature", "InvalidSession"}

\* C9 amended: a rejected session that differs from an issued one only in
\* its signature gets InvalidSignature or InvalidSession; one that differs
\* only in its subject, its issuer or a timestamp gets UnknownSession or
\* InvalidSession.
C9_TamperErrorKindsByField ==
    /\ (TamperedIn({"signature"}) /\ last.res # "Ok")
           => last.res \in {"InvalidSignature", "InvalidSession"}
    /\ (TamperedIn(TamperFields \ {"signature"}) /\ last.res # "Ok")
           => last.res \in {"UnknownSession", "InvalidSession"}

\* A changed subject is answered with UnknownSession.
C9_Witness ==
    /\ TamperedIn({"user_id"})
    /\ last.res = "UnknownSession"

C11_ExpiredAtIssuanceRejected ==
    \A i \in issued :
        (/\ i.via = "new_session_with_issued_time"
         /\ i.s.issued_at + mgr[i.m].session_duration < now)
            => /\ is_expired(i.s, now)
               /\ ~is_valid(i.s, now)
               /\ hash(i.s, mgr[i.m].nonce) \in DOMAIN mgr[i.m].issued_sessions
               /\ (Verified /\ last.m = i.m /\ last.s = i.s)
                      => last.res = "InvalidSession"

\* A session with subject and issuer, issued with an issued_at so far back
\* that it had expired on issuance, is answered with InvalidSession.
C11_Witness ==
    \E i \in issued :
        /\ i.via = "new_session_with_issued_time"
        /\ i.s.issued_at + mgr[i.m].session_duration < now
        /\ i.s.issuer # EmptyString
        /\ Verified
        /\ last.m = i.m
        /\ last.s = i.s
        /\ last.res = "InvalidSession"
        /\ hash(i.s, mgr[i.m].nonce) \in DOMAIN mgr[i.m].issued_sessions

\* ---- C12
\* The call new_session_with_issued_time(u, t) just made on a manager had a
\* non-empty u and issued_at <= now <= issued_at + session_duration.
IssuedInWindow ==
    /\ last.op = "new_session_with_issued_time"
    /\ last.args.user_id # EmptyString
    /\ last.args.issued_at <= now
    /\ now <= last.args.issued_at + mgr[last.m].session_duration

\* What C12 says of the session the call returned.
ReturnedAsAsked ==
    /\ last.res = "Ok"
    /\ last.s.sign_state.tag = "Signed"
    /\ last.s.user_id = last.args.user_id
    /\ last.s.issuer = mgr[last.m].issuer
    /\ last.s.issued_at = last.args.issued_at
    /\ last.s.expires_at = last.args.issued_at + mgr[last.m].session_duration
    /\ ~is_expired(last.s, now)
    /\ is_valid(last.s, now)
    /\ is_signed(last.s)
    /\ verify_session(mgr[last.m], last.s, now) = "Ok"

KeepsSession == last'.op \in {"add_signature", "inspect", "held"}

\* C13: the sign-state moves only from Unsigned to Signed and only once: a
\* Signed session stays Signed with the same signature under every operation
\* on it, and add_signature acts on Unsigned sessions only.
C13_SignStateOneWay ==
    [][KeepsSession =>
          /\ is_signed(last.s)
                 => (is_signed(last'.s) /\ signature(last'.s) = signature(last.s))
          /\ last'.op = "add_signature" => ~is_signed(last.s)]_vars

\* A session signed by add_signature, kept while the clock advanced and then
\* inspected, is still signed with the signature it was given.
C13_Witness ==
    /\ last.op = "inspect"
    /\ ~last.args.given
    /\ last.obs.signed
    /\ last.args.signature = JunkSignature
    /\ signature(last.s) = JunkSignature
    /\ now > 0

\* ---- C14
\* C14: add_signature(sig) on an Unsigned session returns a Signed session
\* with the id, subject, issuer, issued_at and expires_at of the unsigned
\* one and with signature() = sig, and changes nothing else.
C14_AddSignatureFrame ==
    [][last'.op = "add_signature" =>
          /\ ~is_signed(last.s)
          /\ SameAttributes(last.s, last'.s)
          /\ last'.s.sign_state = Signed(last'.args.signature)
          /\ signature(last'.s) = last'.args.signature
          /\ UNCHANGED <<now, mgr, issued>>]_vars

\* add_signature has just signed a built session that has every attribute
\* set.
C14_Witness ==
    /\ last.op = "add_signature"
    /\ last.s.id # EmptyString
    /\ last.s.user_id # EmptyString
    /\ last.s.issuer # EmptyString
    /\ last.s.expires_at > last.s.issued_at
    /\ signature(last.s) = JunkSignature

\* ---- C15
\* C15: the builder returns a session with expires_at = issued_at +
\* duration, and no later operation on the session (add_signature,
\* is_expired, is_valid, is_signed, the passing of time) changes issued_at
\* or expires_at.
C15_ExpiresAtFixedAtBuild ==
    [][/\ (last'.op = "build" /\ last'.res = "Ok")
              => /\ last'.s.issued_at = last'.args.issued_at
                 /\ last'.s.expires_at = last'.args.issued_at + last'.duration
       /\ KeepsSession
              => /\ last'.s.issued_at = last.s.issued_at
                 /\ last'.s.expires_at = last.s.expires_at]_vars

\* A built session, signed and inspected after its expires_at has passed,
\* still has expires_at = issued_at + duration.
C15_Witness ==
    /\ last.op = "inspect"
    /\ ~last.args.given
    /\ is_signed(last.s)
    /\ last.duration > 0
    /\ last.s.expires_at = last.args.issued_at + last.duration
    /\ now > last.s.expires_at
    /\ last.obs.expired

\* ---- C16
\* The ledger of the manager the threads share.
Ledger == mgr[Shared].issued_sessions

\* The threads that are inside new_session.
Issuing == {t \in Threads : threads[t].pc # "idle" /\ threads[t].op = "new_session"}

\* Sessions that new_session calls, finished or under way, have made have
\* pairwise different ids, and every returned session is in the ledger.
DistinctAndRecorded ==
    /\ \A i, j \in issued : i.s.id = j.s.id => i = j
    /\ \A t, u \in Issuing : threads[t].s.id = threads[u].s.id => t = u
    /\ \A t \in Issuing, i \in issued : threads[t].s.id # i.s.id
    /\ \A i \in issued : hash(i.s, mgr[Shared].nonce) \in DOMAIN Ledger

\* C16 as stated: whatever the interleaving of new_session calls for one
\* subject, the sessions have different ids, all are in the ledger, and a
\* returned session passes verify_session while it has not expired, however
\* many sessions were issued since.
C16_ConcurrentIssuance ==
    /\ DistinctAndRecorded
    /\ (/\ Verified
        /\ last.s \in {i.s : i \in issued}
        /\ now <= last.s.expires_at)
           => last.res = "Ok"

\* C16 amended: the same, with acceptance by verify_session claimed for a
\* manager whose issuer is not the empty string.
C16_ConcurrentIssuanceWithIssuer ==
    /\ DistinctAndRecorded
    /\ (/\ Verified
        /\ last.s \in {i.s : i \in issued}
        /\ now <= last.s.expires_at
        /\ mgr[Shared].issuer # EmptyString)
           => last.res = "Ok"

\* Two new_session calls for one subject are under way at once, one past its
\* insert and the other holding the lock, after an earlier session of that
\* subject was verified and accepted.
C16_Witness ==
    /\ \E t, u \in Issuing :
          /\ threads[t].pc = "add_signature"
          /\ threads[u].pc = "insert"
          /\ threads[t].user_id = threads[u].user_id
          /\ threads[t].s.id # threads[u].s.id
          /\ last.s.user_id = threads[t].user_id
    /\ Verified
    /\ last.s \in {i.s : i \in issued}
    /\ last.res = "Ok"

\* ---- C17
\* The threads that have the ledger in hand.
InLedger == {t \in Threads : threads[t].pc \in {"insert", "contains_key"}}

\* C17 as stated: an insert excludes every other access to the ledger, while
\* a lookup by verify_session holds shared access only, so a verify_session
\* call never waits for another verify_session call's lookup.
C17_ReadersShareLedger ==
    /\ \A t, u \in InLedger : threads[t].pc = "insert" => t = u
    /\ \A t \in Threads :
          (/\ threads[t].pc = "lock"
           /\ threads[t].op = "verify_session"
           /\ lock # 0)
              => threads[lock].op # "verify_session"

\* C17 amended: the ledger is guarded by one mutual-exclusion lock, held for
\* the insert and for the lookup alike: the thread that has the ledger in
\* hand is the one holding the lock, so no lookup overlaps an insert and no
\* two lookups overlap.
C17_LedgerMutualExclusion ==
    /\ \A t, u \in InLedger : t = u
    /\ \A t \in Threads : t \in InLedger <=> lock = t

\* A verify_session call waits for the lock while another verify_session
\* call does its lookup.
C17_Witness ==
    \E t, u \in Threads :
        /\ threads[t].pc = "contains_key"
        /\ lock = t
        /\ threads[u].pc = "lock"
        /\ threads[u].op = "verify_session"

\* ---- C18
Results == {"Ok", "KeyError", "PoisonError", "InvalidSession", "UnknownSession",
            "InvalidSignature"}

\* C18 as stated, in its final-result form: every call that has finished has
\* returned Ok or an error.
C18_EveryCallReturnsResult ==
    last.op \in {"new_session", "verify_session"} => last.res \in Results

\* C18 amended: under fair scheduling every call that is under way finishes;
\* it returns Ok or an error, or it is a new_session call with an empty
\* subject, which aborts in the builder's assertion before it touches the
\* lock.  While a call is under way some thread can take a step, the lock is
\* held only by a thread that has the ledger in hand, and a thread that asks
\* for the lock does not hold it.
C18_EveryCallFinishes ==
    /\ \A t \in Threads : (threads[t].pc # "idle") ~> (threads[t].pc = "idle")
    /\ [](last.op \in {"new_session", "verify_session"}
              => \/ last.res \in Results
                 \/ /\ last.res = "panic"
                    /\ last.op = "new_session"
                    /\ last.args.user_id = EmptyString)
    /\ []((\E t \in Threads : threads[t].pc # "idle")
              => \E u \in Threads : ENABLED ThreadStep(u))
    /\ [](\A t \in Threads : threads[t].pc = "lock" => lock # t)
    /\ [](lock # 0 => lock \in InLedger)

\* Every thread is waiting for the lock or holding it.
C18_Witness ==
    /\ lock # 0
    /\ \A t \in Threads : threads[t].pc = "lock" \/ lock = t
    /\ \E t \in Threads : threads[t].pc = "lock"

\* ---- C19
\* C19: the ledger only grows.  Its size is the number of successful
\* issuances, every issued session has its entry, keyed by its hash and
\* holding its expires_at; no step removes or changes an entry, and the only
\* step that changes the ledger is the insert of a new_session call, which
\* adds one entry under a key that was not there.
C19_LedgerOnlyGrows ==
    /\ [](Cardinality(DOMAIN Ledger)
              = Cardinality(issued)
                + Cardinality({t \in Threads : threads[t].pc = "add_signature"}))
    /\ [](\A i \in issued :
              /\ hash(i.s, mgr[Shared].nonce) \in DOMAIN Ledger
              /\ Ledger[hash(i.s, mgr[Shared].nonce)] = SessionData(i.s.expires_at))
    /\ [][\A h \in DOMAIN Ledger : h \in DOMAIN Ledger' /\ Ledger'[h] = Ledger[h]]_vars
    /\ [][Ledger' # Ledger =>
              \E t \in Threads :
                  /\ threads[t].pc = "insert"
                  /\ threads'[t].pc = "add_signature"
                  /\ hash(threads[t].s, mgr[Shared].nonce) \notin DOMAIN Ledger
                  /\ DOMAIN Ledger'
                         = DOMAIN Ledger \cup {hash(threads[t].s, mgr[Shared].nonce)}]_vars

\* The ledger holds two entries, one of them for a session whose expires_at
\* has passed and that verify_session has just rejected for it.
C19_Witness ==
    /\ Cardinality(DOMAIN Ledger) >= 2
    /\ Verified
    /\ last.res = "InvalidSession"
    /\ now > last.s.expires_at
    /\ hash(last.s, mgr[Shared].nonce) \in DOMAIN Ledger

\* ---- C20
\* The reasons for which verify_session rejects a session.
Rejections == {"InvalidSession", "UnknownSession", "InvalidSignature"}

\* C20: whichever of its three checks makes verify_session reject the
\* session of a request, is_valid_session returns false and the middleware
\* gives the same answer, 401 "invalid session", without attaching the
\* session.
C20_UniformRejection ==
    (/\ last.op = "from_request"
     /\ last.obs.valid
     /\ verify_session(mgr[last.m], last.s, now) \in Rejections)
        => /\ ~is_valid_session(mgr[last.m], last.s, now)
           /\ last.res = [status |-> 401, body |-> "invalid session"]
           /\ ~last.obs.signed

\* A request whose session is valid and in the ledger but carries another
\* signature is answered with 401.
C20_Witness ==
    /\ last.op = "from_request"
    /\ last.obs.valid
    /\ verify_session(mgr[last.m], last.s, now) = "InvalidSignature"
    /\ last.res = [status |-> 401, body |-> "invalid session"]

LockFailed == last.op = "is_valid_session" /\ last.res = "PoisonError"

\* C22: a session check that finds the ledger lock poisoned ends with
\* PoisonError, and what is_valid_session hands to its caller then differs
\* from what it hands over for a rejected session.
C22_PoisonSurfacedDistinctly ==
    LockFailed =>
        \A r \in Rejections : last.obs.valid # session_check(r, last.s, now)

\* ---- C23
\* C23: a new_session call with a subject, on a manager whose key cannot
\* sign, returns the key error and no session, and leaves the ledger and the
\* rest of the manager as they were.
C23_SigningFailureLeavesLedger ==
    [][(/\ last'.op = "new_session"
        /\ last'.args.user_id # EmptyString
        /\ \A msg \in Messages : ~sign(get_signing_key(mgr[last'.m]), msg).ok)
          => /\ last'.res = "KeyError"
             /\ last'.s = NoSession
             /\ mgr' = mgr
             /\ issued' = issued]_vars

\* new_session has been called on a manager that was given a Key made from
\* bytes that are no key, and has returned the key error.
C23_Witness ==
    /\ last.op = "new_session"
    /\ last.res = "KeyError"
    /\ get_signing_key(mgr[last.m]) = "junk"
    /\ mgr[last.m].issued_sessions = <<>>

\* ---- C24
\* C24: a new_session call for the empty subject ends in the builder's
\* assertion: the step that ends it returns no session and leaves the ledger
\* as it was; so no session that was issued has an empty subject.
C24_EmptySubjectAborts ==
    /\ [][(/\ last' # last
            /\ last'.op = "new_session"
            /\ last'.args.user_id = EmptyString)
              => /\ last'.res = "panic"
                 /\ last'.s = NoSession
                 /\ mgr' = mgr
                 /\ issued' = issued]_vars
    /\ [](\A i \in issued : i.s.user_id # EmptyString)

\* new_session("") has been called, after a session was issued to a subject.
C24_Witness ==
    /\ last.op = "new_session"
    /\ last.args.user_id = EmptyString
    /\ last.res = "panic"
    /\ Ledger # <<>>

\* ---- C25
\* The has_signed call just made.
Checked == last.op = "has_signed"

\* C25: has_signed answers with a boolean, never an error: true for the
\* signature that sign produces with the same key over the same message,
\* false for a signature over another message, a signature by another key,
\* arbitrary or no bytes, and whenever the key material is no key.
C25_HasSignedIsTotal ==
    Checked =>
        LET own == sign(last.key, last.message)
        IN  /\ last.res = "Ok"
            /\ last.obs.valid \in BOOLEAN
            /\ (own.ok /\ last.args.signature = own.signature) => last.obs.valid
            /\ (~own.ok \/ last.args.signature # own.signature) => ~last.obs.valid

\* has_signed has answered false on a Key made from bytes that are no key,
\* for a signature a generated key produced over the same message.
C25_Witness ==
    /\ Checked
    /\ last.key = "junk"
    /\ last.args.signature = sign("k1", last.message).signature
    /\ ~last.obs.valid

\* ---- C26
\* C26: Key::open on a file whose bytes are no key material fails when the
\* file is loaded: it returns the invalid-encoding error, which is neither
\* the I/O error nor the error of signing, and no Key.
C26_InvalidBlobRefusedAtLoad ==
    (/\ last.op = "open"
     /\ last.filename \in Paths
     /\ files[last.filename] # NoFile
     /\ ~from_pkcs8_ok(files[last.filename]))
        => /\ last.res = "InvalidDerFile"
           /\ last.key = NoKey

\* ---- C27
\* Signatures made with either of two Keys are accepted by both.
Interoperable(k, k2) ==
    \A msg \in Messages :
        /\ sign(k2, msg).ok =>
              /\ has_signed(k2, msg, sign(k2, msg).signature)
              /\ has_signed(k, msg, sign(k2, msg).signature)
        /\ sign(k, msg).ok => has_signed(k2, msg, sign(k, msg).signature)

\* C27: when a Key is saved to a file and that file is opened next, the Key
\* that open returns holds the bytes of the Key saved, and the signatures of
\* either are accepted by both.
C27_SaveOpenRoundTrip ==
    [][(/\ last.op = "save"
        /\ last.res = "Ok"
        /\ last'.op = "open"
        /\ last'.filename = last.filename)
          => /\ last'.res = "Ok"
             /\ last'.key = last.key
             /\ held' = held
             /\ Interoperable(held, held')]_vars

\* A generated Key has come back from the file it was saved to.
C27_Witness ==
    /\ last.op = "open"
    /\ last.res = "Ok"
    /\ last.filename = "p"
    /\ held \in GeneratedKeys
    /\ files["p"] = held

\* ---- C28
\* C28: a Signed session whose id is empty is not valid, and verify_session
\* rejects it with InvalidSession.
C28_EmptyIdIsInvalid ==
    (is_signed(last.s) /\ last.s.id = EmptyString)
        => /\ ~is_valid(last.s, now)
           /\ Verified => last.res = "InvalidSession"

\* ---- C29
\* The repository as it stands.
Repo == Memory(users, email_index)

\* The stored users whose email is e.
Owners(e) == {i \in UserIds : users[i] # NoUser /\ users[i].email = e}

\* C29: after a successful create or update of a user, read_by_id of its id
\* and read_by_email of its email return that user; after a successful
\* delete both return NotFound for it; and at any time read_by_email(e)
\* returns a stored user whose email is e, or NotFound when no stored user
\* has that email.
C29_ReadsFollowWrites ==
    /\ (last.op \in {"create", "update"} /\ last.res = "Ok")
          => /\ read_by_id(Repo, last.user.id) = [res |-> "Ok", user |-> last.user]
             /\ read_by_email(Repo, last.user.email) = [res |-> "Ok", user |-> last.user]
    /\ (last.op = "delete" /\ last.res = "Ok")
          => /\ read_by_id(Repo, last.user.id).res = "NotFound"
             /\ read_by_email(Repo, last.user.email).res = "NotFound"
    /\ \A e \in Emails :
          LET r == read_by_email(Repo, e)
          IN  IF Owners(e) = {}
              THEN r.res = "NotFound"
              ELSE r.res = "Ok" /\ r.user.email = e

\* ---- C30
\* C30: a new_session call makes its ledger entry before it attaches the
\* signature and returns: a thread that is past the insert, and every session
\* that was returned, has its hash in the ledger, the session is unsigned up
\* to the attach, and no verify_session of a returned session (which can
\* only start after the return) answers UnknownSession.
C30_InsertBeforeReturn ==
    /\ \A t \in Issuing :
          /\ ~is_signed(threads[t].s)
          /\ threads[t].pc = "add_signature"
                => hash(threads[t].s, mgr[Shared].nonce) \in DOMAIN Ledger
    /\ \A i \in issued : hash(i.s, mgr[Shared].nonce) \in DOMAIN Ledger
    /\ (Verified /\ last.s \in {i.s : i \in issued})
          => last.res # "UnknownSession"

\* A session that new_session returned has been verified and found in the
\* ledger, while another thread is inside new_session, before its insert.
C30_Witness ==
    /\ Verified
    /\ last.s \in {i.s : i \in issued}
    /\ last.res = "Ok"
    /\ \E t \in Issuing : threads[t].pc \in {"lock", "insert"}

\* ---- C31
\* C31: the canonical string, and with it the hash and the payload, take
\* nothing from the sign-state: the ledger key made from the Unsigned session
\* is the hash of the Signed session returned, the payload that was signed is
\* the payload verify_session checks, and a session restored from the same
\* five attributes, whatever its signature, has the same hash and payload.
C31_CanonicalIgnoresSignState ==
    \A i \in issued :
        LET nonce == mgr[i.m].nonce
        IN  /\ hash(i.s, nonce) \in DOMAIN mgr[i.m].issued_sessions
            /\ signature(i.s).msg = payload(i.s, nonce)
            /\ (last.op = "restore" /\ SameAttributes(last.s, i.s))
                  => /\ hash(last.s, nonce) = hash(i.s, nonce)
                     /\ payload(last.s, nonce) = payload(i.s, nonce)

\* An issued session has been restored with its five attributes kept and
\* another signature.
C31_Witness ==
    /\ last.op = "restore"
    /\ \E i \in issued :
          /\ SameAttributes(last.s, i.s)
          /\ signature(last.s) # signature(i.s)

\* ---- C32
\* Two timestamps agree to the second.
SameSecond(t1, t2) == t1 \div TicksPerSec = t2 \div TicksPerSec

\* C32: a restored session has the canonical string of an issued one, and so
\* its hash and payload under the manager's nonce, only if the two have the
\* same id, subject and issuer and timestamps that agree to the second.
C32_CanonicalInjective ==
    \A i \in issued :
        (/\ last.op \in {"restore", "verify_session"}
         /\ to_string(last.s) = to_string(i.s))
            => /\ last.s.id = i.s.id
               /\ last.s.user_id = i.s.user_id
               /\ last.s.issuer = i.s.issuer
               /\ SameSecond(last.s.issued_at, i.s.issued_at)
               /\ SameSecond(last.s.expires_at, i.s.expires_at)

\* ---- C33
\* The session of issuance record i, unchanged, has just been verified by the
\* manager that issued it.
VerifiedUnmodified(i) == Verified /\ last.m = i.m /\ last.s = i.s

\* What C33 says of such a verification: Ok exactly while issued_at <= now
\* <= expires_at, InvalidSession before and after, the ledger entry staying
\* in place.
AcceptedInWindowOnly(i) ==
    /\ last.res = "Ok" <=> (i.s.issued_at <= now /\ now <= i.s.expires_at)
    /\ last.res # "Ok" => last.res = "InvalidSession"
    /\ hash(i.s, mgr[i.m].nonce) \in DOMAIN mgr[i.m].issued_sessions

\* C33 as stated: every manager accepts a session it issued exactly while
\* issued_at <= now <= expires_at and answers InvalidSession outside of that
\* window, with the ledger entry still present.
C33_AcceptedExactlyInWindow ==
    \A i \in issued : VerifiedUnmodified(i) => AcceptedInWindowOnly(i)

\* C33 amended: the same, for a manager whose issuer is not the empty
\* string.
C33_AcceptedExactlyInWindowWithIssuer ==
    \A i \in issued :
        (VerifiedUnmodified(i) /\ mgr[i.m].issuer # EmptyString)
            => AcceptedInWindowOnly(i)

\* A session issued with an issued_at still to come has been refused with
\* InvalidSession by a manager with an issuer.
C33_Witness ==
    \E i \in issued :
        /\ VerifiedUnmodified(i)
        /\ mgr[i.m].issuer # EmptyString
        /\ now < i.s.issued_at
        /\ last.res = "InvalidSession"

\* ---- C34
\* C34: a verify_session call, whatever it returns, leaves every manager
\* (ledger, nonce, key, issuer, session duration) and the sessions held as
\* they were, the verified one among them; and verifying that session again
\* at the same clock value gives the result just returned.
C34_VerifyIsReadOnly ==
    /\ [][last'.op = "verify_session"
            => /\ mgr' = mgr
               /\ issued' = issued
               /\ now' = now
               /\ last'.s \in HeldSessions]_vars
    /\ [](Verified => verify_session(mgr[last.m], last.s, now) = last.res)

\* A session has been accepted and is still in the ledger of the manager
\* that accepted it.
C34_Witness ==
    /\ Verified
    /\ last.res = "Ok"
    /\ hash(last.s, mgr[last.m].nonce) \in DOMAIN mgr[last.m].issued_sessions

\* ---- C35
\* The session the middleware restores from the bearer token that
\* get_authentication makes of session s.
Rebuilt(s) ==
    LET c == TokenClaims(s)
    IN  restore(c.id, c.sub, c.iss, c.iat * TicksPerSec, c.exp * TicksPerSec,
                c.sig)

\* The middleware has just answered a request whose token rebuilt the
\* session of issuance record i, at a clock value at which the manager
\* accepts the original session.
RebuiltWhileAccepted(i) ==
    /\ last.op = "from_request"
    /\ last.obs.valid
    /\ last.s = Rebuilt(i.s)
    /\ verify_session(mgr[i.m], i.s, now) = "Ok"

\* The rebuilt session is accepted by the manager and by the middleware.
RebuiltAccepted(i) ==
    /\ verify_session(mgr[i.m], last.s, now) = "Ok"
    /\ last.res = Accepted

\* C35 as stated: a session issued by M, put into token claims with iat and
\* exp in whole epoch seconds and rebuilt by the middleware, is accepted by
\* M.verify_session at every clock value at which the original is accepted.
C35_TokenRoundTrip ==
    \A i \in issued : RebuiltWhileAccepted(i) => RebuiltAccepted(i)

\* C35 amended: the same, at every clock value at which the original is
\* accepted and which is not later than the whole second of expires_at.
C35_TokenRoundTripUpToWholeSecond ==
    \A i \in issued :
        (/\ RebuiltWhileAccepted(i)
         /\ now <= (i.s.expires_at \div TicksPerSec) * TicksPerSec)
            => RebuiltAccepted(i)

\* A session whose issued_at lost its sub-second part in the token has been
\* rebuilt and accepted.
C35_Witness ==
    \E i \in issued :
        /\ RebuiltWhileAccepted(i)
        /\ now <= (i.s.expires_at \div TicksPerSec) * TicksPerSec
        /\ last.s.issued_at # i.s.issued_at
        /\ last.res = Accepted

\* ---- C36
\* The two authenticate functions, by the name they are recorded under.
AuthenticateOps == {"authenticate", "Authenticator::authenticate"}

\* C36: an authenticate call issues a session only when a user with that
\* login is stored and validate_password returned Ok(true); for an unknown
\* login, for Ok(false) and for a validation error it returns an error,
\* issues no session and leaves the manager's ledger as it was.
C36_AuthenticateIssuesOnlyOnOkTrue ==
    [][(last'.op \in AuthenticateOps /\ <<mgr, issued, last>>' # <<mgr, issued, last>>)
        => LET found == read_by_email(Memory(users, email_index), last'.login)
               permitted ==
                   /\ found.res = "Ok"
                   /\ validate_password(found.user, last'.password) = "Ok(true)"
           IN  \/ permitted
               \/ /\ last'.res # "Ok"
                  /\ last'.s = NoSession
                  /\ issued' = issued
                  /\ mgr' = mgr]_vars

\* ---- C37
\* C37: Memory::create never overwrites: when a user with the same id or a
\* user with the same email is stored (or both), create returns DuplicateID
\* or DuplicateEmail and leaves the user map and the email index as they
\* were.
C37_CreateNeverOverwrites ==
    [][(/\ last'.op = "create"
        /\ \/ users[last'.user.id] # NoUser
           \/ email_index[last'.user.email] # NoId)
        => /\ last'.res \in {"DuplicateID", "DuplicateEmail"}
           /\ users' = users
           /\ email_index' = email_index]_vars

\* ---- C38
\* C38: after any sequence of create, update and delete calls the email
\* index and the user map agree: email_index maps e to i exactly when a user
\* with id i is stored and its email is e.
C38_IndexAgreesWithUsers ==
    \A e \in Emails, i \in UserIds :
        email_index[e] = i <=> (users[i] # NoUser /\ users[i].email = e)

\* ---- C39
\* C39: whatever the Authorization header of a request (absent, shorter than
\* the scheme prefix, not a decodable token) and whatever the iat and exp of
\* a decodable token (negative ones included), the middleware ends with an
\* accepted session or an error response; it never panics, and it attaches a
\* session to the request only if is_valid_session accepted it.
C39_MiddlewareNeverPanics ==
    last.op = "from_request"
        => /\ last.res # Panicked
           /\ last.res.status \in {200, 400, 401}
           /\ last.obs.signed
                => /\ last.res = Accepted
                   /\ is_valid_session(mgr[last.m], last.s, now)

====
